---- MODULE Spec2Model ----
(***************************************************************************)
(* The entity-component-system container of BirchEngine (ECS/ECS.h), the   *)
(* asset helpers that build entities on it (AssetManager.cpp) and the      *)
(* frame loop that drives it (Game.cpp).                                   *)
(*                                                                         *)
(* Entities are numbered 1, 2, ... in the order Manager::addEntity         *)
(* allocates them; a number stands for the address of the Entity object    *)
(* and is never handed out twice.  A component instance is the record      *)
(* [type, serial]: its dynamic type and the serial number of its           *)
(* allocation.                                                             *)
(***************************************************************************)
EXTENDS Integers, Sequences, FiniteSets, TLC

VARIABLES
    entities,         \* Manager::entities, the primary collection (ECS.h:147)
    groupedEntities,  \* Manager::groupedEntities, one index per group (ECS.h:148)
    active,           \* Entity::active, per entity (ECS.h:75)
    components,       \* Entity::components, per entity (ECS.h:76)
    componentArray,   \* Entity::componentArray, per entity (ECS.h:78)
    componentBitSet,  \* Entity::componentBitSet, per entity (ECS.h:79)
    groupBitSet,      \* Entity::groupBitSet, per entity (ECS.h:80)
    lastID,           \* static lastID of getNewComponentTypeID (ECS.h:26)
    typeID,           \* static typeID of each getComponentTypeID<T> (ECS.h:35)
    nextComp,         \* serial number of the next component allocation
    calls,            \* init/update/draw invocations made by the last operation:
                      \* <<method, entity, component>>, and for init what the
                      \* component could observe when the call was made
    lastOp,           \* the last operation, the entities it erased and the
                      \* <<group, entity>> entries it purged
    lastJoin,         \* <<e, g>> of an addGroup call nothing but refresh has followed
    transform,        \* the fields of the TransformComponent that the
                      \* specification TransformSpec attaches; the other
                      \* specifications take a component for its type and
                      \* serial number only
    pc,               \* position of the frame loop ("api": no loop running)
    seen,             \* the group entries the last operation iterated over
    frameInactive     \* entities that were inactive when Game::update began

vars == <<entities, groupedEntities, active, components, componentArray,
          componentBitSet, groupBitSet, lastID, typeID, nextComp, calls,
          lastOp, lastJoin, transform, pc, seen, frameInactive>>

----------------------------------------------------------------------------
(* Program constants *)

maxComponents == 32
maxGroups == 32

(* Bounds of the model *)

MaxEntities == 3       \* Manager::addEntity calls made through the API
MaxOwners == 2         \* the same, for the client of the component interface
MaxInstances == 3      \* Entity::addComponent calls made through the API
MaxGroupEntries == 2   \* entries held by all group indices together
MaxProjectiles == 2    \* AssetManager::CreateProjectile calls in a game
MapTiles == 1          \* entities a map layer or collider file loads
MaxVelocity == 1       \* largest magnitude of a velocity coordinate
MaxCoordinate == 4     \* largest magnitude of a position coordinate

ComponentTypes ==
    {"TransformComponent", "SpriteComponent", "KeyboardController",
     "ColliderComponent", "ProjectileComponent", "TileComponent"}
ApiTypes == {"TransformComponent", "SpriteComponent", "ColliderComponent"}
Groups == 0 .. (maxGroups - 1)
Slots == 0 .. (maxComponents - 1)

\* the groups the API caller uses: the first and the last of the array
ApiGroups == {0, maxGroups - 1}

\* the value of a componentArray slot that was never assigned (ECS.h:78 has
\* no initialiser): a pointer to no component; no operation of the model
\* reads such a slot
Indeterminate == [type |-> "indeterminate", serial |-> 0]

\* the static typeID of a getComponentTypeID<T> that has not run yet
Unassigned == -1

----------------------------------------------------------------------------
(* Helpers on sequences *)

Range(s) == {s[k] : k \in 1 .. Len(s)}

Count(s, x) == Cardinality({k \in 1 .. Len(s) : s[k] = x})

\* the number of entries of all the sequences f[g], g \in S, together
SumLen(f, S) == Cardinality(UNION {{<<g, k>> : k \in 1 .. Len(f[g])} : g \in S})

----------------------------------------------------------------------------
(* The state as one record, so that operations compose *)

World ==
    [entities |-> entities, groupedEntities |-> groupedEntities,
     active |-> active, components |-> components,
     componentArray |-> componentArray, componentBitSet |-> componentBitSet,
     groupBitSet |-> groupBitSet, lastID |-> lastID, typeID |-> typeID,
     nextComp |-> nextComp, calls |-> <<>>,
     erased |-> {}, purged |-> {}, seen |-> {}]

Commit(w) ==
    /\ entities' = w.entities
    /\ groupedEntities' = w.groupedEntities
    /\ active' = w.active
    /\ components' = w.components
    /\ componentArray' = w.componentArray
    /\ componentBitSet' = w.componentBitSet
    /\ groupBitSet' = w.groupBitSet
    /\ lastID' = w.lastID
    /\ typeID' = w.typeID
    /\ nextComp' = w.nextComp
    /\ calls' = w.calls
    /\ seen' = w.seen

Created(w) == 1 .. Len(w.active)

----------------------------------------------------------------------------
(* Component type ids (ECS.h:24-37) *)

\* getNewComponentTypeID: return lastID++
getNewComponentTypeID(w) ==
    [w |-> [w EXCEPT !.lastID = @ + 1], id |-> w.lastID]

\* getComponentTypeID<T>: the function-local static is initialised by the
\* first call and returned by every later one
getComponentTypeID(w, t) ==
    IF w.typeID[t] # Unassigned
    THEN [w |-> w, id |-> w.typeID[t]]
    ELSE LET r == getNewComponentTypeID(w)
         IN  [w |-> [r.w EXCEPT !.typeID[t] = r.id], id |-> r.id]

----------------------------------------------------------------------------
(* Entity (ECS.h:71-138) *)

\* the object a new Entity(manager) is: active, no components, no groups,
\* componentArray not initialised
NewActive == TRUE
NewComponents == <<>>
NewComponentArray == [i \in Slots |-> Indeterminate]
NewBitSet == {}

RECURSIVE Invoke(_, _, _, _)
\* for (auto& c : components) c->method();
Invoke(method, e, comps, k) ==
    IF k > Len(comps) THEN <<>>
    ELSE <<<<method, e, comps[k]>>>> \o Invoke(method, e, comps, k + 1)

\* an update that leaves out an entity that was destroyed
EntityUpdateIfActive(w, e) ==
    IF w.active[e]
    THEN [w EXCEPT !.calls = @ \o Invoke("update", e, w.components[e], 1)]
    ELSE w

\* Entity::update
EntityUpdate(w, e) ==
    [w EXCEPT !.calls = @ \o Invoke("update", e, w.components[e], 1)]

\* Entity::draw
EntityDraw(w, e) ==
    [w EXCEPT !.calls = @ \o Invoke("draw", e, w.components[e], 1)]

\* Entity::isActive
isActive(w, e) == w.active[e]

\* a destroy that flips the flag
destroyToggle(w, e) == [w EXCEPT !.active[e] = ~@]

\* a destroy that also gives up the entity's group memberships
destroyAndLeave(w, e) == [w EXCEPT !.active[e] = FALSE, !.groupBitSet[e] = {}]

\* Entity::destroy
destroy(w, e) == [w EXCEPT !.active[e] = FALSE]

\* Entity::hasGroup
hasGroup(w, e, g) == g \in w.groupBitSet[e]

\* a delGroup that also takes the entity out of the group's index
delGroupAndPurge(w, e, g) ==
    [w EXCEPT !.groupBitSet[e] = @ \ {g},
              !.groupedEntities[g] = SelectSeq(@, LAMBDA x : x # e)]

\* Entity::delGroup
delGroup(w, e, g) == [w EXCEPT !.groupBitSet[e] = @ \ {g}]

\* Entity::hasComponent<T>
hasComponent(w, e, t) == getComponentTypeID(w, t).id \in w.componentBitSet[e]

\* Entity::getComponent<T>
getComponent(w, e, t) == w.componentArray[e][getComponentTypeID(w, t).id]

\* an attachment that puts the new component first
AttachFront(comps, c) == <<c>> \o comps

\* an attachment that releases the older instance of the same type
AttachReplacing(comps, c) ==
    Append(SelectSeq(comps, LAMBDA d : d.type # c.type), c)

\* components.emplace_back(std::move(uPtr))
Attach(comps, c) == Append(comps, c)

\* a registration that keeps the instance a slot already has
StoreSlotOnce(old, c) == IF old = Indeterminate THEN c ELSE old

\* componentArray[getComponentTypeID<T>()] = c
StoreSlot(old, c) == c

\* what c->init() can observe when it runs on a component of e: the
\* component's entity pointer (owner), and through it the owned collection,
\* hasComponent<T> and getComponent<T> of the types the entity has
InitView(w, e, owner) ==
    LET has == {t \in ComponentTypes : hasComponent(w, e, t)}
    IN  [entity |-> owner, components |-> w.components[e], has |-> has,
         get |-> [t \in has |-> getComponent(w, e, t)]]

\* an addComponent that runs init on the new instance before linking it
addComponentInitFirst(w, e, t) ==
    LET c  == [type |-> t, serial |-> w.nextComp]
        w0 == [w EXCEPT !.calls = Append(@, <<"init", e, c, InitView(w, e, 0)>>)]
        w1 == [w0 EXCEPT !.nextComp = @ + 1,
                         !.components[e] = Attach(@, c)]
        r  == getComponentTypeID(w1, t)
    IN  [r.w EXCEPT !.componentArray[e][r.id] = StoreSlot(@, c),
                    !.componentBitSet[e] = @ \cup {r.id}]

\* Entity::addComponent<T>: allocate, link (c->entity = this, emplace_back),
\* register, init
addComponent(w, e, t) ==
    LET c  == [type |-> t, serial |-> w.nextComp]
        w1 == [w EXCEPT !.nextComp = @ + 1,
                        !.components[e] = Attach(@, c)]
        r  == getComponentTypeID(w1, t)
        w2 == [r.w EXCEPT !.componentArray[e][r.id] = StoreSlot(@, c),
                          !.componentBitSet[e] = @ \cup {r.id}]
    IN  [w2 EXCEPT !.calls = Append(@, <<"init", e, c, InitView(w2, e, e)>>)]

----------------------------------------------------------------------------
(* TransformComponent (TransformComponent.h) *)

\* Speeds are counted in halves, so that 2.5 is a number of the model; the
\* coordinates of position and velocity are whole numbers.

\* float speed = 3
NewSpeed == 2 * 3

\* the transform variable before a TransformComponent is constructed
NoTransform ==
    [attached |-> FALSE, position |-> [x |-> 0, y |-> 0],
     velocity |-> [x |-> 0, y |-> 0], speed |-> NewSpeed]

\* TransformComponent(): position.Zero(), speed by its initialiser
NewTransform == [NoTransform EXCEPT !.attached = TRUE]

\* TransformComponent::init
TransformInit(t) == [t EXCEPT !.velocity = [x |-> 0, y |-> 0]]

Abs(a) == IF a < 0 THEN -a ELSE a

Sgn(a) == IF a < 0 THEN -1 ELSE IF a > 0 THEN 1 ELSE 0

\* the square of velocity.Norm(): Vector2D is defined outside the given
\* sources, the comment at TransformComponent.h:69 gives Norm as
\* std::sqrt(pow(velocity.x, 2) + pow(velocity.y, 2))
NormSquared(v) == v.x * v.x + v.y * v.y

RECURSIVE Magnitude(_, _, _)
\* the whole part of (|a| / 2) / sqrt(n), counted up from k
Magnitude(a, n, k) ==
    IF 4 * (k + 1) * (k + 1) * n > a * a THEN k ELSE Magnitude(a, n, k + 1)

\* static_cast<int>((v * speed) / norm) for a norm other than 0, and
\* static_cast<int>(v * speed) for the norm 0; the cast truncates toward 0
Displacement(v, speed, n) ==
    IF n # 0 THEN Sgn(v * speed) * Magnitude(v * speed, n, 0)
    ELSE Sgn(v * speed) * (Abs(v * speed) \div 2)

\* an update that leaves the speed out
TransformUpdateUnscaled(t) ==
    LET n == NormSquared(t.velocity)
    IN  [t EXCEPT !.position.x = @ + Displacement(t.velocity.x, 2, n),
                  !.position.y = @ + Displacement(t.velocity.y, 2, n)]

\* TransformComponent::update
TransformUpdate(t) ==
    LET n == NormSquared(t.velocity)
    IN  [t EXCEPT !.position.x = @ + Displacement(t.velocity.x, t.speed, n),
                  !.position.y = @ + Displacement(t.velocity.y, t.speed, n)]

----------------------------------------------------------------------------
(* Manager (ECS.h:144-200) *)

RECURSIVE ForEach(_, _, _)
\* for (auto& e : entities) e->method();
ForEach(method, w, k) ==
    IF k > Len(w.entities) THEN w
    ELSE LET e == w.entities[k]
         IN  ForEach(method,
                     IF method = "update" THEN EntityUpdate(w, e)
                                          ELSE EntityDraw(w, e),
                     k + 1)

\* Manager::update
update(w) == ForEach("update", w, 1)

\* Manager::draw
draw(w) == ForEach("draw", w, 1)

RECURSIVE FindIf(_, _, _)
\* std::find_if, the first step of std::remove_if
FindIf(v, Bad, k) ==
    IF k > Len(v) \/ v[k] \in Bad THEN k ELSE FindIf(v, Bad, k + 1)

RECURSIVE Compact(_, _, _, _)
\* the loop of std::remove_if: for (i = first; ++i != last;)
\*     if (!p(*i)) *first++ = std::move(*i);
Compact(v, Bad, first, i) ==
    IF i > Len(v) THEN [v |-> v, newEnd |-> first]
    ELSE IF v[i] \notin Bad
         THEN Compact([v EXCEPT ![first] = v[i]], Bad, first + 1, i + 1)
         ELSE Compact(v, Bad, first, i + 1)

RECURSIVE SwapRemove(_, _, _, _)
SwapRemove(v, Bad, k, n) ==
    IF k > n THEN [v |-> v, newEnd |-> n + 1]
    ELSE IF v[k] \in Bad
         THEN SwapRemove([v EXCEPT ![k] = v[n]], Bad, k, n - 1)
         ELSE SwapRemove(v, Bad, k + 1, n)

\* a removal that fills each hole with the last element
RemoveIfUnstable(v, Bad) == SwapRemove(v, Bad, 1, Len(v))

\* std::remove_if(begin(v), end(v), p), p given by the set of elements it
\* is true of: the shifted container and the new logical end
RemoveIf(v, Bad) ==
    LET f == FindIf(v, Bad, 1)
    IN  IF f > Len(v) THEN [v |-> v, newEnd |-> f]
        ELSE Compact(v, Bad, f, f + 1)

\* v.erase(newEnd): the single-iterator overload, which removes one element
EraseOne(r) ==
    SubSeq(r.v, 1, r.newEnd - 1) \o SubSeq(r.v, r.newEnd + 1, Len(r.v))

\* v.erase(newEnd, end(v))
Erase(r) == SubSeq(r.v, 1, r.newEnd - 1)

\* a group pass that looks at the membership bit only
GroupStaleIgnoringActive(w, e, i) == ~hasGroup(w, e, i)

\* the predicate of the group pass (ECS.h:167-170)
GroupStale(w, e, i) == ~isActive(w, e) \/ ~hasGroup(w, e, i)

\* an entity pass that keeps a destroyed entity while it has a group
EntityDeadAndUngrouped(w, e) == ~isActive(w, e) /\ w.groupBitSet[e] = {}

\* an entity pass that also collects entities without a group
EntityDeadOrUngrouped(w, e) == ~isActive(w, e) \/ w.groupBitSet[e] = {}

\* the predicate of the entity pass (ECS.h:176-179)
EntityDead(w, e) == ~isActive(w, e)

\* the group pass of Manager::refresh, every index 0..maxGroups-1
RefreshGroups(w) ==
    LET bad(i) == {e \in Range(w.groupedEntities[i]) : GroupStale(w, e, i)}
    IN  [w EXCEPT
            !.groupedEntities =
                [i \in Groups |-> Erase(RemoveIf(w.groupedEntities[i], bad(i)))],
            !.purged = {<<i, e>> \in Groups \X Created(w) : e \in bad(i)}]

\* the entity pass of Manager::refresh; an erased unique_ptr deletes the
\* Entity and, with it, the components it owns
RefreshEntities(w) ==
    LET dead == {e \in Range(w.entities) : EntityDead(w, e)}
        gone(e) == e \in dead
    IN  [w EXCEPT
            !.entities = Erase(RemoveIf(w.entities, dead)),
            !.erased = dead,
            !.components = [e \in Created(w) |->
                IF gone(e) THEN <<>> ELSE w.components[e]],
            !.componentArray = [e \in Created(w) |->
                IF gone(e) THEN NewComponentArray ELSE w.componentArray[e]],
            !.componentBitSet = [e \in Created(w) |->
                IF gone(e) THEN {} ELSE w.componentBitSet[e]],
            !.groupBitSet = [e \in Created(w) |->
                IF gone(e) THEN {} ELSE w.groupBitSet[e]]]

\* Manager::refresh: the group pass, then the entity pass
refresh(w) == RefreshEntities(RefreshGroups(w))

\* an addToGroup that looks for the entity in the index first
addToGroupOnce(w, e, g) ==
    IF e \in Range(w.groupedEntities[g]) THEN w
    ELSE [w EXCEPT !.groupedEntities[g] = Append(@, e)]

\* Manager::addToGroup
addToGroup(w, e, g) == [w EXCEPT !.groupedEntities[g] = Append(@, e)]

\* Manager::getGroup
getGroup(w, g) == w.groupedEntities[g]

\* Manager::addEntity: the new entity is number Len(active) + 1
addEntity(w) ==
    LET e == Len(w.active) + 1
    IN  [w EXCEPT !.entities = Append(@, e),
                  !.active = Append(@, NewActive),
                  !.components = Append(@, NewComponents),
                  !.componentArray = Append(@, NewComponentArray),
                  !.componentBitSet = Append(@, NewBitSet),
                  !.groupBitSet = Append(@, NewBitSet)]

\* Entity::addGroup is declared at ECS.h:102 and defined outside the given
\* sources: it sets the membership bit and pushes the entity to the
\* manager's index of that group
addGroup(w, e, g) ==
    addToGroup([w EXCEPT !.groupBitSet[e] = @ \cup {g}], e, g)

----------------------------------------------------------------------------
(* Operations of the API, called in any order by a client that holds       *)
(* references to the entities still in the primary collection              *)

NoJoin == <<0, 0>>

Done(name, e, g, w) ==
    /\ Commit(w)
    /\ lastOp' = [op |-> name, erased |-> w.erased, purged |-> w.purged]
    /\ lastJoin' = CASE name = "addGroup" -> <<e, g>>
                      [] name = "refresh"  -> lastJoin
                      [] OTHER             -> NoJoin
    /\ UNCHANGED <<transform, pc, frameInactive>>

Live == Range(entities)

GroupEntries == SumLen(groupedEntities, Groups)

AddEntity(limit) ==
    /\ pc = "api"
    /\ Len(active) < limit
    /\ Done("addEntity", Len(active) + 1, 0, addEntity(World))

AddComponent(e, t) ==
    /\ pc = "api"
    /\ nextComp <= MaxInstances
    /\ Done("addComponent", e, 0, addComponent(World, e, t))

AddGroup(e, g) ==
    /\ pc = "api"
    /\ GroupEntries < MaxGroupEntries
    /\ Done("addGroup", e, g, addGroup(World, e, g))

DelGroup(e, g) ==
    /\ pc = "api"
    /\ Done("delGroup", e, g, delGroup(World, e, g))

AddToGroup(e, g) ==
    /\ pc = "api"
    /\ GroupEntries < MaxGroupEntries
    /\ Done("addToGroup", e, g, addToGroup(World, e, g))

Destroy(e) ==
    /\ pc = "api"
    /\ Done("destroy", e, 0, destroy(World, e))

Refresh ==
    /\ pc = "api"
    /\ Done("refresh", 0, 0, refresh(World))

Update ==
    /\ pc = "api"
    /\ Done("update", 0, 0, update(World))

Draw ==
    /\ pc = "api"
    /\ Done("draw", 0, 0, draw(World))

\* a default-constructed Manager, before any getComponentTypeID<T> ran
Init ==
    /\ entities = <<>>
    /\ groupedEntities = [i \in Groups |-> <<>>]
    /\ active = <<>>
    /\ components = <<>>
    /\ componentArray = <<>>
    /\ componentBitSet = <<>>
    /\ groupBitSet = <<>>
    /\ lastID = 0
    /\ typeID = [t \in ComponentTypes |-> Unassigned]
    /\ nextComp = 1
    /\ calls = <<>>
    /\ lastOp = [op |-> "none", erased |-> {}, purged |-> {}]
    /\ lastJoin = NoJoin
    /\ transform = NoTransform
    /\ pc = "api"
    /\ seen = {}
    /\ frameInactive = {}

\* a client of the Manager: entity lifecycle and group membership
Next ==
    \/ AddEntity(MaxEntities)
    \/ \E e \in Live, g \in ApiGroups : AddGroup(e, g)
    \/ \E e \in Live, g \in ApiGroups : DelGroup(e, g)
    \/ \E e \in Live, g \in ApiGroups : AddToGroup(e, g)
    \/ \E e \in Live : Destroy(e)
    \/ Refresh

Spec == Init /\ [][Next]_vars

\* a client of the Entity: component attachment and the update/draw passes
EntityNext ==
    \/ AddEntity(MaxOwners)
    \/ \E e \in Live, t \in ApiTypes : AddComponent(e, t)
    \/ \E e \in Live : Destroy(e)
    \/ Refresh
    \/ Update
    \/ Draw

EntitySpec == Init /\ [][EntityNext]_vars

----------------------------------------------------------------------------
(* The game (Game.cpp, AssetManager.cpp) *)

\* the enumerators of Game::groupLabels, declared in Game.h outside the
\* given sources; only that they differ matters
groupMapBG == 0
groupMap == 1
groupMapFX == 2
groupPlayers == 3
groupMonsters == 4
groupColliders == 5
groupProjectiles == 6

\* for (int i = 0; i < 3; i++) assets->CreateSpider(...)
NumSpiders == 3

\* auto& player(manager.addEntity()), the first entity of the manager
player == 1

RECURSIVE addComponents(_, _, _, _)
\* e.addComponent<T1>(..); e.addComponent<T2>(..); ...
addComponents(w, e, types, k) ==
    IF k > Len(types) THEN w
    ELSE addComponents(addComponent(w, e, types[k]), e, types, k + 1)

\* AssetManager::CreateProjectile
CreateProjectile(w) ==
    LET w1 == addEntity(w)
        projectile == Len(w1.active)
    IN  addGroup(addComponents(w1, projectile,
                    <<"TransformComponent", "SpriteComponent",
                      "ProjectileComponent", "ColliderComponent">>, 1),
                 projectile, groupProjectiles)

\* AssetManager::CreateSpider
CreateSpider(w) ==
    LET w1 == addEntity(w)
        monster == Len(w1.active)
    IN  addGroup(addComponents(w1, monster,
                    <<"TransformComponent", "SpriteComponent",
                      "ColliderComponent">>, 1),
                 monster, groupMonsters)

RECURSIVE Times(_, _, _, _, _)
\* n entities, each with one component of the given type, joined to group g
Times(n, w, type, g, k) ==
    IF k > n THEN w
    ELSE LET w1 == addEntity(w)
             e  == Len(w1.active)
         IN  Times(n, addGroup(addComponent(w1, e, type), e, g), type, g, k + 1)

\* Map::LoadMap and Map::LoadColliders are defined outside the given
\* sources: a layer loads tile entities into its group, the collider file
\* loads terrain colliders into groupColliders
LoadMap(w, g) == Times(MapTiles, w, "TileComponent", g, 1)
LoadColliders(w) == Times(MapTiles, w, "ColliderComponent", groupColliders, 1)

RECURSIVE Spiders(_, _)
Spiders(w, i) == IF i >= NumSpiders THEN w ELSE Spiders(CreateSpider(w), i + 1)

\* Game::init
init(w) ==
    LET w1 == LoadMap(LoadMap(w, groupMapBG), groupMap)
        w2 == addComponents(w1, player,
                  <<"TransformComponent", "SpriteComponent",
                    "KeyboardController", "ColliderComponent">>, 1)
        w3 == addGroup(w2, player, groupPlayers)
        w4 == Spiders(w3, 0)
    IN  LoadColliders(LoadMap(w4, groupMapFX))

\* one step of a range-for over the index of group g: the element is
\* recorded with whether it is active and has the group's bit
Look(w, loop, g, e) ==
    [w EXCEPT !.seen = @ \cup
        {[loop |-> loop, g |-> g, e |-> e, fresh |-> ~GroupStale(w, e, g)]}]

RECURSIVE Iterate(_, _, _, _, _)
\* a range-for over the index of group g that ends after the element stop
\* (0: runs to the end)
Iterate(w, loop, g, stop, k) ==
    IF k > Len(getGroup(w, g)) THEN w
    ELSE LET e  == getGroup(w, g)[k]
             w1 == Look(w, loop, g, e)
         IN  IF e = stop THEN w1 ELSE Iterate(w1, loop, g, stop, k + 1)

\* Game.cpp:129-157, the two passes over the colliders; the first breaks at
\* the first terrain collider that overlaps the player
TerrainPasses(w, touching) ==
    LET v     == getGroup(w, groupColliders)
        hit   == {k \in 1 .. Len(v) : v[k] \in touching}
        first == IF hit = {} THEN 0
                 ELSE v[CHOOSE k \in hit : \A j \in hit : k <= j]
    IN  Iterate(Iterate(w, "terrain1", groupColliders, first, 1),
                "terrain2", groupColliders, 0, 1)

\* Game.cpp:160-197, the pass over the monsters (it writes transform
\* fields only)
MonsterPass(w) == Iterate(w, "monsters", groupMonsters, 0, 1)

RECURSIVE HitMonsters(_, _, _, _)
\* Game.cpp:202-211, for one projectile p
HitMonsters(w, p, hits, j) ==
    IF j > Len(getGroup(w, groupMonsters)) THEN w
    ELSE LET m  == getGroup(w, groupMonsters)[j]
             w1 == Look(w, "projectiles/monsters", groupMonsters, m)
             w2 == IF <<p, m>> \in hits THEN destroy(destroy(w1, p), m) ELSE w1
         IN  HitMonsters(w2, p, hits, j + 1)

RECURSIVE HitTerrain(_, _, _, _)
\* Game.cpp:212-221, for one projectile p: the test is on the player's
\* collider, not on the projectile's
HitTerrain(w, p, touching, j) ==
    IF j > Len(getGroup(w, groupColliders)) THEN w
    ELSE LET c  == getGroup(w, groupColliders)[j]
             w1 == Look(w, "projectiles/colliders", groupColliders, c)
             w2 == IF c \in touching THEN destroy(w1, p) ELSE w1
         IN  HitTerrain(w2, p, touching, j + 1)

RECURSIVE ProjectilePass(_, _, _, _)
\* Game.cpp:200-222
ProjectilePass(w, hits, touching, k) ==
    IF k > Len(getGroup(w, groupProjectiles)) THEN w
    ELSE LET p  == getGroup(w, groupProjectiles)[k]
             w1 == Look(w, "projectiles", groupProjectiles, p)
             w2 == HitMonsters(w1, p, hits, 1)
             w3 == HitTerrain(w2, p, touching, 1)
         IN  ProjectilePass(w3, hits, touching, k + 1)

\* a frame that updates before it compacts
UpdateThenRefresh(w) == refresh(update(w))

\* Game.cpp:126-127: manager.refresh(); manager.update();
RefreshThenUpdate(w) == update(refresh(w))

\* Game::update, given the collision tests' outcomes: hits, the
\* <<projectile, monster>> pairs that overlap, and touching, the terrain
\* colliders that overlap the player
GameUpdateWith(w, hits, touching) ==
    ProjectilePass(MonsterPass(TerrainPasses(RefreshThenUpdate(w), touching)),
                   hits, touching, 1)

RECURSIVE DrawGroup(_, _, _)
\* for (auto& t : group) t->draw();
DrawGroup(w, g, k) ==
    IF k > Len(getGroup(w, g)) THEN w
    ELSE LET e == getGroup(w, g)[k]
         IN  DrawGroup(EntityDraw(Look(w, "render", g, e), e), g, k + 1)

RECURSIVE DrawGroups(_, _, _)
DrawGroups(w, gs, k) ==
    IF k > Len(gs) THEN w ELSE DrawGroups(DrawGroup(w, gs[k], 1), gs, k + 1)

\* Game::render
render(w) ==
    DrawGroups(w, <<groupMapBG, groupMap, groupProjectiles, groupPlayers,
                    groupMonsters, groupMapFX>>, 1)

GameDone(name, next, w) ==
    /\ Commit(w)
    /\ lastOp' = [op |-> name, erased |-> w.erased, purged |-> w.purged]
    /\ lastJoin' = NoJoin
    /\ pc' = next
    /\ UNCHANGED transform

\* the entities Game::init and the static initialisers create
StaticEntities == 1 + 3 * MapTiles + NumSpiders + MapTiles

\* Game::init, once
GameInit ==
    /\ pc = "init"
    /\ GameDone("Game::init", "update", init(World))
    /\ UNCHANGED frameInactive

\* Game::update, once per frame
GameUpdate ==
    /\ pc = "update"
    /\ \E hits \in SUBSET ({p \in Range(groupedEntities[groupProjectiles]) : active[p]}
                           \X {m \in Range(groupedEntities[groupMonsters]) : active[m]}),
          touching \in SUBSET Range(groupedEntities[groupColliders]) :
          GameDone("Game::update", "render", GameUpdateWith(World, hits, touching))
    /\ frameInactive' = {e \in Range(entities) : ~active[e]}

\* Game::render, once per frame
GameRender ==
    /\ pc = "render"
    /\ GameDone("Game::render", "update", render(World))
    /\ UNCHANGED frameInactive

\* AssetManager::CreateProjectile, called by game code between two frames
Shoot ==
    /\ pc = "update"
    /\ Len(active) < StaticEntities + MaxProjectiles
    /\ GameDone("CreateProjectile", "update", CreateProjectile(World))
    /\ UNCHANGED frameInactive

\* the state after the static initialisers of Game.cpp: a Manager that
\* holds the player entity
GameInitState ==
    /\ entities = <<player>>
    /\ groupedEntities = [i \in Groups |-> <<>>]
    /\ active = <<NewActive>>
    /\ components = <<NewComponents>>
    /\ componentArray = <<NewComponentArray>>
    /\ componentBitSet = <<NewBitSet>>
    /\ groupBitSet = <<NewBitSet>>
    /\ lastID = 0
    /\ typeID = [t \in ComponentTypes |-> Unassigned]
    /\ nextComp = 1
    /\ calls = <<>>
    /\ lastOp = [op |-> "addEntity", erased |-> {}, purged |-> {}]
    /\ lastJoin = NoJoin
    /\ transform = NoTransform
    /\ pc = "init"
    /\ seen = {}
    /\ frameInactive = {}

GameNext ==
    \/ GameInit
    \/ GameUpdate
    \/ GameRender
    \/ Shoot

GameSpec == GameInitState /\ [][GameNext]_vars

----------------------------------------------------------------------------
(* A client that attaches a TransformComponent to one entity and moves it *)

\* the values the game gives a velocity coordinate (Game.cpp:183-192)
Velocities == (-MaxVelocity) .. MaxVelocity

\* the speeds of the game in halves: speedLo 1.0, 2.5 and speedHi 3.5 of
\* AssetManager::CreateSpider, and the initialiser 3
Speeds == {2, 5, NewSpeed, 7}

Coordinates == (-MaxCoordinate) .. MaxCoordinate

\* the TransformComponent of the transform variable: the first component
\* of the first entity
Moved == [type |-> "TransformComponent", serial |-> 1]

TransformDone(name, w, t) ==
    /\ Commit(w)
    /\ lastOp' = [op |-> name, erased |-> w.erased, purged |-> w.purged]
    /\ lastJoin' = NoJoin
    /\ transform' = t
    /\ UNCHANGED <<pc, frameInactive>>

\* entity.addComponent<TransformComponent>()
AttachTransform ==
    /\ pc = "api"
    /\ entities # <<>>
    /\ ~transform.attached
    /\ TransformDone("addComponent",
                     addComponent(World, entities[1], "TransformComponent"),
                     TransformInit(NewTransform))

\* entity.getComponent<TransformComponent>().velocity = (x, y)
SetVelocity(x, y) ==
    /\ pc = "api"
    /\ transform.attached
    /\ TransformDone("velocity", World,
                     [transform EXCEPT !.velocity = [x |-> x, y |-> y]])

\* entity.getComponent<TransformComponent>().speed = s
SetSpeed(s) ==
    /\ pc = "api"
    /\ transform.attached
    /\ TransformDone("speed", World, [transform EXCEPT !.speed = s])

\* Manager::update, which reaches TransformComponent::update through
\* Entity::update
MoveUpdate ==
    LET w == update(World)
        t == IF \E k \in 1 .. Len(w.calls) : w.calls[k] = <<"update", entities[1], Moved>>
             THEN TransformUpdate(transform) ELSE transform
    IN  /\ pc = "api"
        /\ t.position.x \in Coordinates
        /\ t.position.y \in Coordinates
        /\ TransformDone("update", w, t)

TransformNext ==
    \/ AddEntity(1)
    \/ AttachTransform
    \/ \E x, y \in Velocities : SetVelocity(x, y)
    \/ \E s \in Speeds : SetSpeed(s)
    \/ MoveUpdate

TransformSpec == Init /\ [][TransformNext]_vars

----------------------------------------------------------------------------
(* Properties of the Manager: lifecycle and group indices *)

AfterRefresh == lastOp.op = "refresh"

\* only Entity::destroy clears the flag, and an erased entity keeps it cleared
Destroyed == {e \in Created(World) : ~active[e]}

Present(e) == e \in Range(entities)

InGroup(e, g) == e \in Range(getGroup(World, g))

\* C1: once E.destroy() was called, the state after the next
\* Manager::refresh has E neither in the primary collection nor in the
\* index of any group 0..maxGroups-1
C1_DestroyedGoneAfterRefresh ==
    AfterRefresh =>
        \A e \in Destroyed : ~Present(e) /\ \A g \in Groups : ~InGroup(e, g)

\* a refresh erased a destroyed entity that a group index held, and that
\* group, which had no other member, now reports zero members
C1_Witness ==
    /\ AfterRefresh
    /\ \E p \in lastOp.purged :
          /\ p[2] \in lastOp.erased
          /\ \A q \in lastOp.purged : q[1] = p[1] => q[2] \in lastOp.erased
          /\ getGroup(World, p[1]) = <<>>

\* C2: after E.addGroup(g) on an active entity, followed by
\* Manager::refresh, getGroup(g) holds E exactly once
C2_JoinedExactlyOnce ==
    (AfterRefresh /\ lastJoin # NoJoin /\ Present(lastJoin[1])) =>
        Count(getGroup(World, lastJoin[2]), lastJoin[1]) = 1

\* C3: every reference held by a group index is to an entity that is in the
\* primary collection
C3_GroupRefsArePresent ==
    \A g \in Groups : \A e \in Range(getGroup(World, g)) : Present(e)

\* a refresh erased an entity that was in a group whose index still holds
\* another entity
C3_Witness ==
    /\ AfterRefresh
    /\ \E p \in lastOp.purged :
          /\ p[2] \in lastOp.erased
          /\ getGroup(World, p[1]) # <<>>

\* C4: an entity leaves the primary collection only in a refresh step, and
\* only if its active flag was false in the state before that step
C4_RemovedOnlyWhenInactive ==
    [][\A e \in Range(entities) :
          e \notin Range(entities') => (~active[e] /\ lastOp'.op = "refresh")]_vars

\* a refresh erased an inactive entity and left an active one in place
C4_Witness ==
    /\ AfterRefresh
    /\ lastOp.erased # {}
    /\ \E e \in Range(entities) : active[e]

----------------------------------------------------------------------------
(* Properties of the Entity: component storage and typed lookup *)

\* the component the last addComponent call attached (and returned) and the
\* entity it was attached to: the call ends by invoking the component's init
JustAttached == calls[Len(calls)][3]
JustAttachedTo == calls[Len(calls)][2]

AfterAddComponent == lastOp.op = "addComponent"

\* the invocations among the calls that were made on components of e
CallsOn(e) == SelectSeq(calls, LAMBDA c : c[2] = e)

\* what a pass of the given method over the components comps of e invokes
PassOver(method, e, comps) == [k \in 1 .. Len(comps) |-> <<method, e, comps[k]>>]

\* components are allocated one after the other, so the order of the serial
\* numbers is the order of attachment
InAttachmentOrder(comps) ==
    \A j, k \in 1 .. Len(comps) : j < k => comps[j].serial < comps[k].serial

\* the instances of type t that e owns, as positions in its collection
Owned(e, t) == {k \in 1 .. Len(components[e]) : components[e][k].type = t}

\* C6: in the state after E.addComponent<T>(args), E.hasComponent<T>() is
\* true and E.getComponent<T>() is the instance that call created
C6_AttachedIsFound ==
    AfterAddComponent =>
        /\ JustAttached.serial = nextComp - 1
        /\ hasComponent(World, JustAttachedTo, JustAttached.type)
        /\ getComponent(World, JustAttachedTo, JustAttached.type) = JustAttached

\* a component was attached to an entity that already owned one of another
\* type and one of the same type
C6_Witness ==
    /\ AfterAddComponent
    /\ \E k \in 1 .. Len(components[JustAttachedTo]) :
          components[JustAttachedTo][k].type # JustAttached.type
    /\ Cardinality(Owned(JustAttachedTo, JustAttached.type)) >= 2

\* C7: a call of Entity::update invokes update() on the components of the
\* entity one by one in the order they were attached, each exactly once
C7_UpdateInAttachmentOrder ==
    lastOp.op = "update" =>
        \A e \in Range(entities) :
            /\ CallsOn(e) = PassOver("update", e, components[e])
            /\ InAttachmentOrder(components[e])

\* an update pass ran over an entity with three components of three types
C7_Witness ==
    /\ lastOp.op = "update"
    /\ \E e \in Range(entities) :
          /\ Len(components[e]) = 3
          /\ Cardinality({components[e][k].type : k \in 1 .. 3}) = 3
          /\ Len(CallsOn(e)) = 3

\* C8: attaching never takes an owned component out of the collection,
\* every update and draw pass reaches all owned components in attachment
\* order, also two of one type, and the typed lookup of a type yields the
\* instance of that type attached last
C8_DoubleAttachShadows ==
    [][\A e \in Range(entities') :
          /\ e \in Range(entities) =>
                SubSeq(components'[e], 1, Len(components[e])) = components[e]
          /\ \A t \in ApiTypes : Owned(e, t)' # {} =>
                LET last == CHOOSE k \in Owned(e, t)' :
                                \A j \in Owned(e, t)' : j <= k
                IN  getComponent(World, e, t)' = components'[e][last]
          /\ lastOp'.op \in {"update", "draw"} =>
                CallsOn(e)' = PassOver(lastOp'.op, e, components'[e])]_vars

\* an update pass ran over an entity that owns two components of one type,
\* and the typed lookup yields the second
C8_Witness ==
    /\ lastOp.op = "update"
    /\ \E e \in Range(entities), t \in ApiTypes :
          /\ Cardinality(Owned(e, t)) = 2
          /\ Len(CallsOn(e)) = Len(components[e])
          /\ \E j, k \in Owned(e, t) :
                /\ j < k
                /\ getComponent(World, e, t) = components[e][k]
                /\ getComponent(World, e, t) # components[e][j]

----------------------------------------------------------------------------
(* Properties of the frame loop *)

\* C5: no group index that the collision passes of Game::update or the
\* loops of Game::render iterate over holds an entity that is inactive or
\* lacks the group's bit at the moment it is reached
C5_NoStaleEntryObserved ==
    lastOp.op \in {"Game::update", "Game::render"} => \A v \in seen : v.fresh

\* C10: Game::update compacts before it updates, so Manager::update invokes
\* update() on no entity that was inactive when Game::update began
C10_NoUpdateOfInactiveAtFrameStart ==
    lastOp.op = "Game::update" =>
        \A k \in 1 .. Len(calls) :
            calls[k][1] = "update" => calls[k][2] \notin frameInactive

\* a frame began with an inactive entity in the primary collection, erased
\* it and updated the others
C10_Witness ==
    /\ lastOp.op = "Game::update"
    /\ frameInactive # {}
    /\ frameInactive \subseteq lastOp.erased
    /\ \E k \in 1 .. Len(calls) : calls[k][1] = "update"

----------------------------------------------------------------------------
(* Further properties of the Manager and the Entity *)

RECURSIVE PassOverAll(_, _, _)
\* what a pass of the given method over the entities es invokes, component
\* by component
PassOverAll(method, es, k) ==
    IF k > Len(es) THEN <<>>
    ELSE PassOver(method, es[k], components[es[k]]) \o PassOverAll(method, es, k + 1)

\* C11: Manager::update invokes update() on the components of every entity
\* of the primary collection, entity by entity in the collection's order,
\* whether the entity is active or not
C11_UpdateReachesEveryEntity ==
    lastOp.op = "update" => calls = PassOverAll("update", entities, 1)

\* an update pass ran over a destroyed, not yet erased entity with a
\* component, placed before an active entity with a component
C11_Witness ==
    /\ lastOp.op = "update"
    /\ \E j, k \in 1 .. Len(entities) :
          /\ j < k
          /\ ~active[entities[j]] /\ active[entities[k]]
          /\ CallsOn(entities[j]) # <<>> /\ CallsOn(entities[k]) # <<>>

\* C12: a destroy step sets the active flag of one entity to false and
\* changes nothing else: not the primary collection, no group index, no
\* membership bit, no component, no other entity
C12_DestroyOnlyClearsFlag ==
    [][lastOp'.op = "destroy" =>
          /\ \E e \in Range(entities) : active' = [active EXCEPT ![e] = FALSE]
          /\ UNCHANGED <<entities, groupedEntities, groupBitSet, components,
                         componentArray, componentBitSet>>]_vars

\* a member of a group was destroyed: it is inactive, still in the primary
\* collection, still in the index and still has the bit
C12_Witness ==
    /\ lastOp.op = "destroy"
    /\ \E e \in Range(entities), g \in Groups :
          ~active[e] /\ InGroup(e, g) /\ g \in groupBitSet[e]
    /\ \E e \in Range(entities) : active[e]

\* C13: an addToGroup step appends one reference to the group's index,
\* also when the index holds the entity already, and a refresh step keeps
\* every reference to an entity that is active and has the group's bit
C13_AddToGroupKeepsDuplicates ==
    [][/\ lastOp'.op = "addToGroup" =>
             \E e \in Range(entities), g \in Groups :
                 groupedEntities' =
                     [groupedEntities EXCEPT ![g] = Append(@, e)]
       /\ lastOp'.op = "refresh" =>
             \A g \in Groups : \A e \in Range(groupedEntities[g]) :
                 (active[e] /\ g \in groupBitSet[e]) =>
                     Count(groupedEntities'[g], e) = Count(groupedEntities[g], e)]_vars

\* addToGroup was called with an active member the index held already:
\* the index holds it twice
C13_Witness ==
    /\ lastOp.op = "addToGroup"
    /\ \E e \in Range(entities), g \in Groups :
          /\ active[e] /\ g \in groupBitSet[e]
          /\ Count(getGroup(World, g), e) = 2

\* C17: in every reachable state, refresh run twice in a row leaves the same
\* primary collection and the same group indices as refresh run once
C17_RefreshIsIdempotent ==
    LET once  == refresh(World)
        twice == refresh(once)
    IN  /\ twice.entities = once.entities
        /\ twice.groupedEntities = once.groupedEntities

\* a state in which the first refresh has work to do in the primary
\* collection and in an index that keeps some of its entries
C17_Witness ==
    LET once == refresh(World)
    IN  /\ Len(once.entities) < Len(entities)
        /\ \E g \in Groups :
              /\ Len(once.groupedEntities[g]) < Len(groupedEntities[g])
              /\ once.groupedEntities[g] # <<>>

\* C18: no step sets an inactive entity's flag back to true, an entity
\* starts active, destroy applied twice is destroy applied once, and a
\* refresh step removes every entity that was inactive before it
C18_ActiveIsMonotonic ==
    [][/\ \A e \in 1 .. Len(active) : ~active[e] => ~active'[e]
       /\ \A e \in (Len(active) + 1) .. Len(active') : active'[e]
       /\ \A e \in Range(entities) :
             destroy(destroy(World, e), e).active = destroy(World, e).active
       /\ lastOp'.op = "refresh" =>
             \A e \in Range(entities) : ~active[e] => e \notin Range(entities')]_vars

\* an entity joined a group while it was inactive, and the refresh that
\* followed removed it
C18_Witness ==
    /\ AfterRefresh
    /\ lastJoin # NoJoin
    /\ lastJoin[1] \in lastOp.erased

\* C16: a delGroup step clears one membership bit and leaves the indices,
\* the primary collection and the flags as they were; no step but refresh
\* takes an entry out of an index; a refresh step keeps every active entity
\* in the primary collection, keeps its entries in each group whose bit it
\* has, and leaves it in no group whose bit it lacks
C16_EntriesLeaveOnlyAtRefresh ==
    [][/\ lastOp'.op = "delGroup" =>
             /\ \E e \in Range(entities), g \in Groups :
                   groupBitSet' = [groupBitSet EXCEPT ![e] = @ \ {g}]
             /\ UNCHANGED <<groupedEntities, entities, active>>
       /\ lastOp'.op # "refresh" =>
             \A g \in Groups :
                 /\ Len(groupedEntities[g]) <= Len(groupedEntities'[g])
                 /\ groupedEntities[g] =
                        SubSeq(groupedEntities'[g], 1, Len(groupedEntities[g]))
       /\ lastOp'.op = "refresh" =>
             \A e \in Range(entities) : active[e] =>
                 /\ e \in Range(entities')
                 /\ \A g \in Groups :
                       IF g \in groupBitSet[e]
                       THEN Count(groupedEntities'[g], e) = Count(groupedEntities[g], e)
                       ELSE e \notin Range(groupedEntities'[g])]_vars

\* delGroup(g) was called on the only entity there is: the entity is active,
\* lacks the bit of g, is still in the index of g, and belongs to another
\* group h
C16_Witness ==
    /\ lastOp.op = "delGroup"
    /\ Len(active) = 1
    /\ \E e \in Range(entities), g \in Groups, h \in Groups :
          /\ active[e] /\ g # h
          /\ g \notin groupBitSet[e] /\ InGroup(e, g)
          /\ h \in groupBitSet[e] /\ InGroup(e, h)

\* the position of the component c in the collection comps
Position(comps, c) == CHOOSE k \in 1 .. Len(comps) : comps[k] = c

\* the component instances that the entities own
Instances(comps) == UNION {Range(comps[e]) : e \in 1 .. Len(comps)}

\* C14: in every step, each component instance the step attaches gets one
\* init call, made in that step, and no other instance gets one; when init
\* runs, the component's entity pointer is its owner, the owned collection
\* ends with the component and holds every sibling attached before it, and
\* hasComponent and getComponent answer for the component and the siblings;
\* update, draw and refresh steps make no init call
C14_InitOnceAfterLinking ==
    [][/\ \A c \in Instances(components') \ Instances(components) :
             Cardinality({k \in 1 .. Len(calls') :
                             calls'[k][1] = "init" /\ calls'[k][3] = c}) = 1
       /\ \A k \in 1 .. Len(calls') : calls'[k][1] = "init" =>
             LET e == calls'[k][2]
                 c == calls'[k][3]
                 v == calls'[k][4]
             IN  /\ c.serial >= nextComp
                 /\ c \in Range(components'[e])
                 /\ v.entity = e
                 /\ v.components = SubSeq(components'[e], 1, Position(components'[e], c))
                 /\ \A d \in Range(v.components) :
                       d.type \in v.has /\ v.get[d.type].type = d.type
                 /\ v.get[c.type] = c
       /\ lastOp'.op \in {"update", "draw", "refresh"} =>
             \A k \in 1 .. Len(calls') : calls'[k][1] # "init"]_vars

\* addComponent ran on an entity that had a component of another type: init
\* saw the new component and the sibling
C14_Witness ==
    /\ AfterAddComponent
    /\ Len(calls) = 1
    /\ calls[1][4].entity = JustAttachedTo
    /\ JustAttached.type \in calls[1][4].has
    /\ \E t \in calls[1][4].has : t # JustAttached.type

\* the whole number d is a / 2 divided by the square root of n, truncated
\* toward 0
IsTruncated(d, a, n) ==
    /\ d * a >= 0
    /\ 4 * d * d * n <= a * a
    /\ a * a < 4 * (Abs(d) + 1) * (Abs(d) + 1) * n

\* C15: an update of a TransformComponent with velocity (1,0) and speed 3
\* adds 3 to position.x and leaves position.y; in general, with a velocity
\* other than (0,0), it adds to each coordinate of the position the
\* coordinate of velocity * speed / norm truncated toward 0, and it leaves
\* velocity and speed as they were
C15_UpdateMovesBySpeed ==
    [][(lastOp'.op = "update" /\ transform.attached) =>
          LET v  == transform.velocity
              n  == v.x * v.x + v.y * v.y
              dx == transform'.position.x - transform.position.x
              dy == transform'.position.y - transform.position.y
          IN  /\ (v = [x |-> 1, y |-> 0] /\ transform.speed = 2 * 3) =>
                    (dx = 3 /\ dy = 0)
              /\ n # 0 => /\ IsTruncated(dx, v.x * transform.speed, n)
                          /\ IsTruncated(dy, v.y * transform.speed, n)
              /\ n = 0 => (dx = 0 /\ dy = 0)
              /\ transform'.velocity = v
              /\ transform'.speed = transform.speed]_vars

\* the last step was an update of a TransformComponent with velocity (1,0) and
\* speed 3, and it ended at position (3,0)
C15_Witness ==
    /\ lastOp.op = "update"
    /\ transform.attached
    /\ transform.velocity = [x |-> 1, y |-> 0]
    /\ transform.speed = 2 * 3
    /\ transform.position = [x |-> 3, y |-> 0]

====
